---------------------------- MODULE Spec2Model ----------------------------
(***************************************************************************)
(* A model of scripts/geojson2raster.py: the pipeline                      *)
(*   load_polygon -> maybe_project_to_utm -> ensure_polygon ->             *)
(*   grid_sample_points -> rasterize_vectorized -> invert -> save_outputs  *)
(* run by main(), and the two pure functions grid_sample_points and        *)
(* rasterize_vectorized applied on their own.                              *)
(*                                                                         *)
(* Geometry.  A polygonal geometry is a finite union of closed unit cells  *)
(* of the integer lattice, the cell <<cx, cy>> being the square            *)
(* [cx, cx+1] x [cy, cy+1].  Cells sharing an edge merge into one polygon, *)
(* cells meeting in a corner only form a multipolygon, so every set of     *)
(* cells is a valid (multi)polygon and its set of cells is its unary       *)
(* union.                                                                  *)
(*                                                                         *)
(* Numbers.  Bounds are non-negative integers.  A float64 value is kept as *)
(* <<p, q, en, ed>>: the rational p/q it would be in exact arithmetic plus *)
(* its accumulated rounding error (en/ed) * 2^-60.  Every float operation  *)
(* of the code rounds its exact result to the nearest double, ties to      *)
(* even, as IEEE 754 does.                                                 *)
(***************************************************************************)
EXTENDS Integers, Sequences, FiniteSets, TLC

(* ------------------------------ bounds -------------------------------- *)
\* The lattice of polygon cells is 0..LatN-1 squared.
LatN == 2
\* --width and --height range over -1..MaxDim (parse_args accepts any
\* integer; -1 and 0 stand for the values that are not positive).
MaxDim == 3
\* The input file holds at most MaxFeatures features.
MaxFeatures == 2

(* ------------------------------ float64 ------------------------------ *)
\* The operations on doubles are functions: like the Python they model,
\* they take the values of their arguments.
Abs(n) == IF n < 0 THEN -n ELSE n

Gcd[a \in Int, b \in Int] == IF b = 0 THEN a ELSE Gcd[b, a % b]

Pow2[k \in Int] == IF k = 0 THEN 1 ELSE 2 * Pow2[k - 1]

\* 2^s mod m
Pow2Mod[s \in Int, m \in Int] ==
  IF s = 0 THEN 1 % m
  ELSE IF s % 2 = 0 THEN (Pow2Mod[s \div 2, m] * Pow2Mod[s \div 2, m]) % m
  ELSE (2 * Pow2Mod[s - 1, m]) % m

Doubles == Int \X Int \X Int \X Int

\* Both fractions in lowest terms.
F64Norm[x \in Doubles] ==
  LET g == Gcd[x[1], x[2]]
      h == Gcd[Abs(x[3]), x[4]]
  IN  <<x[1] \div g, x[2] \div g, x[3] \div h, x[4] \div h>>

\* The k with 2^k <= p/q < 2^(k+1), for p/q > 0.
BinadeFrom[p \in Int, q \in Int, k \in Int] ==
  IF k >= 0
    THEN IF p >= q * Pow2[k + 1] THEN BinadeFrom[p, q, k + 1] ELSE k
    ELSE IF p * Pow2[-k] >= q THEN k ELSE BinadeFrom[p, q, k - 1]
Binade[p \in Int, q \in Int] ==
  IF p >= q THEN BinadeFrom[p, q, 0] ELSE BinadeFrom[p, q, -1]
IsPow2[p \in Int, q \in Int, k \in Int] ==
  IF k >= 0 THEN p = q * Pow2[k] ELSE p * Pow2[-k] = q

\* The rounding error left when m units of 2^(k-60) replace the fraction
\* fn/q of such a unit.
RoundTo[x \in Doubles, sh \in Int, fn \in Int, m \in Int] ==
  IF sh >= 0 THEN F64Norm[<<x[1], x[2], (m * x[2] - fn) * Pow2[sh], x[2]>>]
  ELSE F64Norm[<<x[1], x[2], m * x[2] - fn, x[2] * Pow2[-sh]>>]

\* Round to nearest, ties to even: par is the parity of the double below
\* p/q, fnum/fden the position of x above it in units of 2^(k-52).
RoundFrac[x \in Doubles, sh \in Int, par \in Int, fn \in Int] ==
  LET q == x[2]
      en == x[3]
      ed == x[4]
      fnum == IF sh >= 0 THEN fn * ed * Pow2[sh] + en * q ELSE fn * ed + en * q * Pow2[-sh]
      fden == IF sh >= 0 THEN q * ed * Pow2[sh] ELSE q * ed
      m0 == (2 * fnum + fden) \div (2 * fden)
      m == IF (2 * fnum + fden) % (2 * fden) = 0 /\ (par + m0) % 2 = 1 THEN m0 - 1 ELSE m0
  IN  RoundTo[x, sh, fn, m]

\* The doubles around x in its binade k are the multiples of 2^(k-52); the
\* position of p/q between two of them and the parity of the lower one
\* come from V = p * 2^(52-k) mod 2q.
RoundMod[x \in Doubles, k \in Int, V \in Int] ==
  RoundFrac[x, 8 + k, V \div x[2], V % x[2]]

RoundInBinade[x \in Doubles, k \in Int] ==
  RoundMod[x, k, (x[1] * Pow2Mod[52 - k, 2 * x[2]]) % (2 * x[2])]

RoundFromBinade[x \in Doubles, k0 \in Int] ==
  RoundInBinade[x, IF IsPow2[x[1], x[2], k0] /\ x[3] < 0 THEN k0 - 1 ELSE k0]

RoundNormal[x \in Doubles] ==
  IF x[1] = 0 THEN <<0, 1, 0, 1>> ELSE RoundFromBinade[x, Binade[x[1], x[2]]]

\* The double nearest to the exact value x = p/q + (en/ed) * 2^-60 >= 0.
F64Round[x \in Doubles] == RoundNormal[F64Norm[x]]

\* float(n) of a small integer: exact.
F64OfInt(n) == <<n, 1, 0, 1>>
\* d / n of two integers, n > 0
F64Div[d \in Int, n \in Int] == F64Round[<<d, n, 0, 1>>]
\* float(j) * x
F64MulInt[j \in Int, x \in Doubles] == F64Round[<<j * x[1], x[2], j * x[3], x[4]>>]
\* x + y
F64Add[x \in Doubles, y \in Doubles] ==
  F64Round[<<x[1] * y[2] + y[1] * x[2], x[2] * y[2],
             x[3] * y[4] + y[3] * x[4], x[4] * y[4]>>]

\* Comparison of two doubles: by their exact parts, and by their rounding
\* errors when these agree.
F64Lt(x, y) ==
  \/ x[1] * y[2] < y[1] * x[2]
  \/ x[1] * y[2] = y[1] * x[2] /\ x[3] * y[4] < y[3] * x[4]
F64Eq(x, y) == x[1] * y[2] = y[1] * x[2] /\ x[3] * y[4] = y[3] * x[4]

(* ----------------------------- geometry ------------------------------- *)
Cells == (0..(LatN - 1)) \X (0..(LatN - 1))

\* The features an input file can hold: unit-cell polygons, one point and
\* one line string, the latter two lying apart from every polygon.
PolygonFeatures == {<<"Polygon", c>> : c \in Cells}
OtherFeatures == {<<"Point", <<0, 0>>>>, <<"LineString", <<0, 0>>>>}
Features == PolygonFeatures \cup OtherFeatures

SetMin(S) == CHOOSE m \in S : \A n \in S : m <= n
SetMax(S) == CHOOSE m \in S : \A n \in S : n <= m

\* gdf.unary_union: the polygonal part as a set of cells, and whether a
\* point and a line are left over beside it.
UnaryUnion(fs) ==
  [cells |-> {f[2] : f \in {g \in fs : g[1] = "Polygon"}},
   point |-> \E f \in fs : f[1] = "Point",
   line  |-> \E f \in fs : f[1] = "LineString"]

\* The class of the union: Polygon/MultiPolygon, a single Point or
\* LineString (which has no .geoms), or a GeometryCollection.
GeomType(g) ==
  IF g.cells # {} /\ ~g.point /\ ~g.line THEN "Polygonal"
  ELSE IF g.cells = {} /\ (g.point # g.line) THEN "Single"
  ELSE "Collection"

\* geom.bounds of a polygonal geometry: (minx, miny, maxx, maxy).
Bounds(cells) ==
  <<SetMin({c[1] : c \in cells}), SetMin({c[2] : c \in cells}),
    SetMax({c[1] : c \in cells}) + 1, SetMax({c[2] : c \in cells}) + 1>>

\* The lattice columns (or rows) whose closed unit interval holds the
\* double t: two of them when t is a lattice line exactly.
Touching(t) ==
  LET fl == t[1] \div t[2]
      onLine == t[1] % t[2] = 0
  IN  IF onLine /\ t[3] = 0 THEN {fl - 1, fl}
      ELSE IF onLine /\ t[3] < 0 THEN {fl - 1}
      ELSE {fl}

\* The containment predicate of the geometry backend (shapely's contains
\* of a point): the point lies in the interior of the union of the cells,
\* that is, every closed cell that holds it belongs to the geometry.  A
\* point on the boundary is not contained.
ContainsXY(cells, x, y) ==
  \A cx \in Touching(x) : \A cy \in Touching(y) : <<cx, cy>> \in cells

(* ------------------------- grid_sample_points ------------------------- *)
\* Arrays are functions on 0..n-1, as the code indexes them.
Len0(a) == Cardinality(DOMAIN a)

\* np.linspace(a, b, num=n, endpoint=False) for n > 0:
\*   step = (b - a) / n;  y = arange(n) * step + a
\* (and y = arange(n) / n * (b - a) + a when step is 0).
Linspace[a \in Int, b \in Int, n \in Int] ==
  LET delta == b - a
      step == F64Div[delta, n]
  IN  [j \in 0..(n - 1) |->
         F64Add[IF delta = 0 THEN F64MulInt[0, F64Div[j, n]] ELSE F64MulInt[j, step],
                F64OfInt(a)]]

\* Variant: the flip "ys[::-1]" left out.
ReversedNoFlip(a) == a

\* a[::-1]
Reversed(a) == [i \in 0..(Len0(a) - 1) |-> a[Len0(a) - 1 - i]]

\* arr + scalar
AddScalar(a, r) == [j \in DOMAIN a |-> F64Add[a[j], r]]

ZeroDivisionError == "ZeroDivisionError: float division by zero"
SamplesError == "ValueError: Number of samples must be non-negative"

\* grid_sample_points.  Line 66 is evaluated before line 67, and on each
\* line np.linspace (which rejects num < 0) before the division by
\* 2 * width or 2 * height (which fails for 0).
grid_sample_points(bounds, width, height) ==
  LET minx == bounds[1]
      miny == bounds[2]
      maxx == bounds[3]
      maxy == bounds[4]
      xs == AddScalar(Linspace[minx, maxx, width], F64Div[maxx - minx, 2 * width])
      ys == AddScalar(Linspace[miny, maxy, height], F64Div[maxy - miny, 2 * height])
      ys_top_to_bottom == Reversed(ys)
  IN  IF width < 0 THEN [raised |-> SamplesError, xs |-> <<>>, ys |-> <<>>]
      ELSE IF width = 0 THEN [raised |-> ZeroDivisionError, xs |-> <<>>, ys |-> <<>>]
      ELSE IF height < 0 THEN [raised |-> SamplesError, xs |-> <<>>, ys |-> <<>>]
      ELSE IF height = 0 THEN [raised |-> ZeroDivisionError, xs |-> <<>>, ys |-> <<>>]
      ELSE [raised |-> "none", xs |-> xs, ys |-> ys_top_to_bottom]

(* ------------------------ rasterize_vectorized ------------------------ *)
\* Variant: np.meshgrid(xs, ys, indexing="ij"), of shape (W, H).
MeshgridIJ(xs, ys) ==
  [X |-> [i \in DOMAIN xs |-> [j \in DOMAIN ys |-> xs[i]]],
   Y |-> [i \in DOMAIN xs |-> [j \in DOMAIN ys |-> ys[j]]]]

\* np.meshgrid(xs, ys): two (H, W) arrays, X[i][j] = xs[j], Y[i][j] = ys[i].
Meshgrid(xs, ys) ==
  [X |-> [i \in DOMAIN ys |-> [j \in DOMAIN xs |-> xs[j]]],
   Y |-> [i \in DOMAIN ys |-> [j \in DOMAIN xs |-> ys[i]]]]

\* Variant: the coordinate arrays passed in the wrong order.
VectorizedContainsSwapped(poly, X, Y) ==
  [i \in DOMAIN X |-> [j \in DOMAIN X[i] |-> ContainsXY(poly, Y[i][j], X[i][j])]]

\* vectorized.contains(poly, X, Y): the predicate applied element-wise.
VectorizedContains(poly, X, Y) ==
  [i \in DOMAIN X |-> [j \in DOMAIN X[i] |-> ContainsXY(poly, X[i][j], Y[i][j])]]

\* mask_bool.astype(np.uint8)
AsUint8(b) == [i \in DOMAIN b |-> [j \in DOMAIN b[i] |-> IF b[i][j] THEN 1 ELSE 0]]

BulkMask(poly, xs, ys) ==
  LET g == Meshgrid(xs, ys)
  IN  AsUint8(VectorizedContains(poly, g.X, g.Y))

\* np.zeros((H, W), dtype=np.uint8)
Zeros(H, W) == [i \in 0..(H - 1) |-> [j \in 0..(W - 1) |-> 0]]

\* The nested loop "for i, y in enumerate(ys): for j, x in enumerate(xs)",
\* flattened: step k visits row k \div W, column k % W.
RECURSIVE LoopFill(_, _, _, _, _)
LoopFill(mask, poly, xs, ys, k) ==
  LET H == Len0(ys)
      W == Len0(xs)
      i == k \div W
      j == k % W
  IN  IF k >= H * W THEN mask
      ELSE LoopFill(IF ContainsXY(poly, xs[j], ys[i])
                      THEN [mask EXCEPT ![i][j] = 1]
                      ELSE mask,
                    poly, xs, ys, k + 1)

LoopMask(poly, xs, ys) == LoopFill(Zeros(Len0(ys), Len0(xs)), poly, xs, ys, 0)

\* How the bulk attempt of one call goes: it works, the import of
\* shapely.vectorized fails, or vectorized.contains raises.
BulkOutcomes == {"ok", "import_error", "contains_error"}

\* rasterize_vectorized(poly, xs, ys).  bulk is the outcome of the try
\* block; hasContainsXY says whether the installed PreparedGeometry has an
\* attribute contains_xy (the Shapely 1.8 and 2.x releases have none, and
\* the lookup then raises AttributeError inside the except block, on the
\* first sample point).
rasterize_vectorized(poly, xs, ys, bulk, hasContainsXY) ==
  IF bulk = "ok"
    THEN [raised |-> "none", path |-> "bulk", mask |-> BulkMask(poly, xs, ys)]
  ELSE IF hasContainsXY
    THEN [raised |-> "none", path |-> "loop", mask |-> LoopMask(poly, xs, ys)]
  ELSE [raised |-> "AttributeError", path |-> "loop", mask |-> <<>>]

(* ------------------------------ invert -------------------------------- *)
\* Variant: mask01 - 1, which wraps 0 to 255.
InvertWrap(mask) == [i \in DOMAIN mask |-> [j \in DOMAIN mask[i] |-> (mask[i][j] - 1) % 256]]

\* 1 - mask01 on a uint8 array: the result stays uint8 and wraps mod 256.
Invert(mask) == [i \in DOMAIN mask |-> [j \in DOMAIN mask[i] |-> (1 - mask[i][j]) % 256]]

(* ---------------------------- save_outputs ---------------------------- *)
\* (mask01 * 255).astype(np.uint8)
Scale255(mask) == [i \in DOMAIN mask |-> [j \in DOMAIN mask[i] |-> (mask[i][j] * 255) % 256]]

\* gdf.crs.to_wkt() if gdf.crs is not None else "UNKNOWN"
ToWkt(crs) == IF crs = "NONE" THEN "UNKNOWN" ELSE "WKT:" \o crs

\* img_ext = "jpg" if img_format == "jpeg" else img_format
ImgExt(img_format) == IF img_format = "jpeg" THEN "jpg" ELSE img_format

\* The image written: its extension, its pixels, and whether the encoding
\* is the lossy JPEG one (quality 95) or the lossless PNG one.
ImageFile(mask, img_format) ==
  [ext |-> ImgExt(img_format),
   lossy |-> ImgExt(img_format) \in {"jpg", "jpeg"},
   pixels |-> Scale255(mask)]

\* Variant: width and height recorded the wrong way round.
MetaSwapped(img_format, crs_wkt, bounds, width, height) ==
  [image_format |-> ImgExt(img_format), height |-> width, width |-> height,
   bounds |-> [minx |-> bounds[1], miny |-> bounds[2],
               maxx |-> bounds[3], maxy |-> bounds[4]],
   crs_wkt |-> crs_wkt, inside_value |-> 1, outside_value |-> 0]

\* The metadata record written as JSON (the paths are left out).
Meta(img_format, crs_wkt, bounds, width, height) ==
  [image_format |-> ImgExt(img_format), height |-> height, width |-> width,
   bounds |-> [minx |-> bounds[1], miny |-> bounds[2],
               maxx |-> bounds[3], maxy |-> bounds[4]],
   crs_wkt |-> crs_wkt, inside_value |-> 1, outside_value |-> 0]

\* A file on disk: written in full, or created and left empty or
\* truncated by a write that failed.
Complete(data) == <<[complete |-> TRUE, data |-> data]>>
Truncated == <<[complete |-> FALSE]>>
IsComplete(f) == f # <<>> /\ f[1].complete

\* Where a call of save_outputs can fail: nowhere, or in one of its three
\* writes, either before the file is created (it cannot be opened) or
\* after (the file stays on disk, incomplete).
SaveStages == {"npy", "image", "meta"}
SaveFailures == {<<"none", "none">>} \cup (SaveStages \X {"before_open", "after_open"})

\* What a failing write leaves of its file.
Failed(fail) == IF fail[2] = "after_open" THEN Truncated ELSE <<>>

\* The files on disk when save_outputs returns or raises: the three writes
\* happen in order and a failing write ends the function.
save_outputs(fs, mask01, img_format, crs_wkt, bounds, width, height, fail) ==
  LET fs1 == [fs EXCEPT !.npy = IF fail[1] = "npy" THEN Failed(fail) ELSE Complete(mask01)]
      fs2 == [fs1 EXCEPT !.image = IF fail[1] = "image" THEN Failed(fail)
                                    ELSE Complete(ImageFile(mask01, img_format))]
      fs3 == [fs2 EXCEPT !.meta = IF fail[1] = "meta" THEN Failed(fail)
                                   ELSE Complete(Meta(img_format, crs_wkt, bounds, width, height))]
  IN  IF fail[1] = "npy" THEN fs1
      ELSE IF fail[1] = "image" THEN fs2
      ELSE fs3

(* ------------------------ load and projection ------------------------- *)
DefaultCrs == "EPSG:4326"
UtmCrs == "EPSG:32633"
InputCrs == {"NONE", "EPSG:3857"}

\* gdf.to_crs(utm_crs) on the geometry: the coordinates change (here by a
\* fixed lattice translation), the kinds of the parts do not.
Reproject(g) == [g EXCEPT !.cells = {<<c[1] + 3, c[2] + 5>> : c \in g.cells}]

\* load_polygon past the emptiness test.
load_polygon(features, crs) ==
  [geom |-> UnaryUnion(features),
   crs  |-> IF crs = "NONE" THEN DefaultCrs ELSE crs]

\* maybe_project_to_utm; outcome is how the try block goes.  The result is
\* the frame returned, the warnings printed to stderr and the exception
\* that leaves the function ("none": the except clause catches them all).
ProjectOutcomes == {"ok", "estimate_fails", "to_crs_fails"}
ProjectWarning == "[warn] Could not project to UTM automatically"
\* Variant: no try/except around the projection.
maybe_project_no_catch(gdf, use_utm, outcome) ==
  IF ~use_utm
    THEN [gdf |-> gdf, warnings |-> <<>>, raised |-> "none"]
  ELSE IF outcome = "ok"
    THEN [gdf |-> [geom |-> Reproject(gdf.geom), crs |-> UtmCrs],
          warnings |-> <<>>, raised |-> "none"]
  ELSE [gdf |-> gdf, warnings |-> <<>>, raised |-> "ProjectionError"]

maybe_project_to_utm(gdf, use_utm, outcome) ==
  IF ~use_utm
    THEN [gdf |-> gdf, warnings |-> <<>>, raised |-> "none"]
  ELSE IF outcome = "ok"
    THEN [gdf |-> [geom |-> Reproject(gdf.geom), crs |-> UtmCrs],
          warnings |-> <<>>, raised |-> "none"]
  ELSE [gdf |-> gdf, warnings |-> <<ProjectWarning>>, raised |-> "none"]

(* --------------------------- ensure_polygon --------------------------- *)
InputError == "ValueError: No geometry found in the GeoJSON."
GeometryError == "ValueError: No polygonal geometry found."
UnsupportedError == "ValueError: Unsupported geometry type for rasterization."

\* Variant: the test "if not polys" left out, so a collection without
\* polygons yields an empty MultiPolygon.
ensure_polygon_unchecked(g) ==
  IF GeomType(g) = "Single" THEN [raised |-> UnsupportedError, polys |-> {}]
  ELSE [raised |-> "none", polys |-> g.cells]

\* ensure_polygon(geom): the polygonal part, or the exception raised.
ensure_polygon(g) ==
  IF GeomType(g) = "Polygonal" THEN [raised |-> "none", polys |-> g.cells]
  ELSE IF GeomType(g) = "Single" THEN [raised |-> UnsupportedError, polys |-> {}]
  ELSE IF g.cells = {} THEN [raised |-> GeometryError, polys |-> {}]
  ELSE [raised |-> "none", polys |-> g.cells]

(* ------------------------------- state -------------------------------- *)
VARIABLES
  pc,        \* the position of main(), or of the function under test
  inFile,    \* the input file: its features and its CRS
  args,      \* width, height, project_utm, invert (--format: see Save)
  gdf,       \* the GeoDataFrame: one geometry and its CRS
  geom,      \* the polygonal geometry handed to the rasterizer
  bounds,    \* (minx, miny, maxx, maxy)
  xs, ys,    \* the sample coordinates
  mask01,    \* the mask
  stderr,    \* the warnings printed to the diagnostic stream
  fs,        \* the output files written by this run
  err,       \* the exception that ended the run, or "none"
  trace      \* what happened: how the projection went, which raster path
             \* the function under test took, which write failed

vars == <<pc, inFile, args, gdf, geom, bounds, xs, ys, mask01, stderr, fs, err, trace>>

NoGeometry == [cells |-> {}, point |-> FALSE, line |-> FALSE]
NoFiles == [npy |-> <<>>, image |-> <<>>, meta |-> <<>>]
NoTrace == [projection |-> "none", path |-> "none", save |-> "none"]

Dims == (-1)..MaxDim
Formats == {"png", "jpg", "jpeg"}

InputFiles ==
  {[features |-> f, crs |-> c] :
     f \in {s \in SUBSET Features : Cardinality(s) <= MaxFeatures}, c \in InputCrs}

Args == [width : Dims, height : Dims, project_utm : BOOLEAN, invert : BOOLEAN]

Init ==
  /\ pc = "load"
  /\ inFile \in InputFiles
  /\ args \in Args
  /\ gdf = [geom |-> NoGeometry, crs |-> "NONE"]
  /\ geom = {}
  /\ bounds = <<0, 0, 0, 0>>
  /\ xs = <<>>
  /\ ys = <<>>
  /\ mask01 = <<>>
  /\ stderr = <<>>
  /\ fs = NoFiles
  /\ err = "none"
  /\ trace = NoTrace

Raise(e) == pc' = "error" /\ err' = e

\* main, line 148: gdf = load_polygon(args.input)
Load ==
  /\ pc = "load"
  /\ IF inFile.features = {}
       THEN Raise(InputError) /\ UNCHANGED gdf
       ELSE /\ gdf' = load_polygon(inFile.features, inFile.crs)
            /\ pc' = "project"
            /\ UNCHANGED err
  /\ UNCHANGED <<inFile, args, geom, bounds, xs, ys, mask01, stderr, fs, trace>>

\* main, line 149: gdf = maybe_project_to_utm(gdf, args.project_utm)
Project ==
  /\ pc = "project"
  /\ \E outcome \in (IF args.project_utm THEN ProjectOutcomes ELSE {"not_requested"}) :
       LET r == maybe_project_to_utm(gdf, args.project_utm, outcome)
       IN  /\ stderr' = stderr \o r.warnings
           /\ trace' = [trace EXCEPT !.projection =
                          IF outcome \in {"estimate_fails", "to_crs_fails"}
                            THEN "failed" ELSE outcome]
           /\ IF r.raised = "none"
                THEN gdf' = r.gdf /\ pc' = "ensure" /\ UNCHANGED err
                ELSE Raise(r.raised) /\ UNCHANGED gdf
  /\ UNCHANGED <<inFile, args, geom, bounds, xs, ys, mask01, fs>>

\* main, line 151: geom = ensure_polygon(gdf.geometry.iloc[0])
EnsurePolygon ==
  /\ pc = "ensure"
  /\ LET r == ensure_polygon(gdf.geom)
     IN  IF r.raised = "none"
           THEN geom' = r.polys /\ pc' = "grid" /\ UNCHANGED err
           ELSE Raise(r.raised) /\ UNCHANGED geom
  /\ UNCHANGED <<inFile, args, gdf, bounds, xs, ys, mask01, stderr, fs, trace>>

\* main, lines 153-154
GridSample ==
  /\ pc = "grid"
  /\ bounds' = Bounds(geom)
  /\ \E g \in {grid_sample_points(Bounds(geom), args.width, args.height)} :
       IF g.raised = "none"
         THEN xs' = g.xs /\ ys' = g.ys /\ pc' = "raster" /\ UNCHANGED err
         ELSE Raise(g.raised) /\ UNCHANGED <<xs, ys>>
  /\ UNCHANGED <<inFile, args, gdf, geom, mask01, stderr, fs, trace>>

\* main, line 157: mask01 = rasterize_vectorized(geom, xs, ys)
Rasterize ==
  /\ pc = "raster"
  /\ \E bulk \in BulkOutcomes, hasContainsXY \in BOOLEAN :
       LET r == rasterize_vectorized(geom, xs, ys, bulk, hasContainsXY)
       IN  IF r.raised = "none"
             THEN mask01' = r.mask /\ pc' = "invert" /\ UNCHANGED err
             ELSE Raise(r.raised) /\ UNCHANGED mask01
  /\ UNCHANGED <<inFile, args, gdf, geom, bounds, xs, ys, stderr, fs, trace>>

\* main, lines 159-160
InvertStep ==
  /\ pc = "invert"
  /\ mask01' = IF args.invert THEN Invert(mask01) ELSE mask01
  /\ pc' = "save"
  /\ UNCHANGED <<inFile, args, gdf, geom, bounds, xs, ys, stderr, fs, err, trace>>

\* main, lines 163-164.  --format is read by save_outputs only, so its
\* value is drawn here.
Save ==
  /\ pc = "save"
  /\ \E fail \in SaveFailures, format \in Formats :
       /\ fs' = save_outputs(fs, mask01, format, ToWkt(gdf.crs), bounds,
                             args.width, args.height, fail)
       /\ trace' = [trace EXCEPT !.save = fail[1]]
       /\ IF fail[1] = "none"
            THEN pc' = "done" /\ UNCHANGED err
            ELSE Raise("OSError")
  /\ UNCHANGED <<inFile, args, gdf, geom, bounds, xs, ys, mask01, stderr>>

Next == Load \/ Project \/ EnsurePolygon \/ GridSample \/ Rasterize \/ InvertStep \/ Save

Spec == Init /\ [][Next]_vars

(* --------------- the two pure functions on their own ------------------ *)
\* grid_sample_points and rasterize_vectorized take the bounding box and
\* the polygon as separate arguments.  Under SpecFn they are applied to
\* any box of positive extents on the lattice and any non-empty polygon
\* of at most MaxFeatures cells; under SpecGrid to any box with
\* minx <= maxx and miny <= maxy (a zero extent included) reaching one
\* unit beyond the lattice, and one polygon.
BoxesOn(S) == {b \in S \X S \X S \X S : b[1] <= b[3] /\ b[2] <= b[4]}
Boxes == BoxesOn(0..(LatN + 1))
ProperBoxes == {b \in BoxesOn(0..LatN) : b[1] < b[3] /\ b[2] < b[4]}

FnPolygons == {s \in SUBSET Cells : s # {} /\ Cardinality(s) <= MaxFeatures}

FnStart(boxes, polygons) ==
  /\ pc = "fn_grid"
  /\ inFile = [features |-> {}, crs |-> "NONE"]
  /\ args \in [width : Dims, height : Dims, project_utm : {FALSE}, invert : {FALSE}]
  /\ gdf = [geom |-> NoGeometry, crs |-> "NONE"]
  /\ geom \in polygons
  /\ bounds \in boxes
  /\ xs = <<>>
  /\ ys = <<>>
  /\ mask01 = <<>>
  /\ stderr = <<>>
  /\ fs = NoFiles
  /\ err = "none"
  /\ trace = NoTrace

FnInit == FnStart(ProperBoxes, FnPolygons)
GridInit == FnStart(Boxes, {{<<0, 0>>}})

\* xs, ys = grid_sample_points(bounds, width, height)
FnGridSample ==
  /\ pc = "fn_grid"
  /\ \E g \in {grid_sample_points(bounds, args.width, args.height)} :
       IF g.raised = "none"
         THEN xs' = g.xs /\ ys' = g.ys /\ pc' = "fn_raster" /\ UNCHANGED err
         ELSE Raise(g.raised) /\ UNCHANGED <<xs, ys>>
  /\ UNCHANGED <<inFile, args, gdf, geom, bounds, mask01, stderr, fs, trace>>

\* mask01 = rasterize_vectorized(geom, xs, ys)
FnRasterize ==
  /\ pc = "fn_raster"
  /\ \E bulk \in BulkOutcomes, hasContainsXY \in BOOLEAN :
       LET r == rasterize_vectorized(geom, xs, ys, bulk, hasContainsXY)
       IN  /\ trace' = [trace EXCEPT !.path = r.path]
           /\ IF r.raised = "none"
                THEN mask01' = r.mask /\ pc' = "fn_done" /\ UNCHANGED err
                ELSE Raise(r.raised) /\ UNCHANGED mask01
  /\ UNCHANGED <<inFile, args, gdf, geom, bounds, xs, ys, stderr, fs>>

FnNext == FnGridSample \/ FnRasterize

SpecFn == FnInit /\ [][FnNext]_vars

SpecGrid == GridInit /\ [][FnNext]_vars

(* ============================== claims ================================ *)
W == args.width
H == args.height

IsBinaryMask(m, rows, cols) ==
  /\ DOMAIN m = 0..(rows - 1)
  /\ \A i \in DOMAIN m :
       /\ DOMAIN m[i] = 0..(cols - 1)
       /\ \A j \in DOMAIN m[i] : m[i][j] \in {0, 1}

HasCell(m, v) == \E i \in DOMAIN m : \E j \in DOMAIN m[i] : m[i][j] = v

\* The pixel centers minX + (j + 1/2)(maxX - minX)/W and
\* maxY - (i + 1/2)(maxY - minY)/H in exact arithmetic, as fractions
\* <<num, den>>.
CenterX(b, j) == <<2 * W * b[1] + (2 * j + 1) * (b[3] - b[1]), 2 * W>>
CenterY(b, i) == <<2 * H * b[4] - (2 * i + 1) * (b[4] - b[2]), 2 * H>>

\* The double nearest to the fraction r: the value of r in float64.
Nearest(r) == F64Round[<<r[1], r[2], 0, 1>>]

\* The frame load_polygon returned, and the frame that is rasterized.
OrigGdf == load_polygon(inFile.features, inFile.crs)
RasterizedGdf ==
  IF trace.projection = "ok"
    THEN [geom |-> Reproject(OrigGdf.geom), crs |-> UtmCrs]
    ELSE OrigGdf

ProjectionFailed == trace.projection = "failed"

\* The mask expected of a polygon: the classification of the pixel centers
\* of its bounding box, complemented when --invert is given.
ExpectedMask(cells) ==
  LET g == grid_sample_points(Bounds(cells), W, H)
  IN  [i \in 0..(H - 1) |-> [j \in 0..(W - 1) |->
        IF ContainsXY(cells, g.xs[j], g.ys[i]) # args.invert THEN 1 ELSE 0]]

\* C1: the mask handed to save_outputs has exactly H rows and W columns
\* and every cell is 0 or 1, whichever strategy produced it and whether or
\* not it was inverted; a completely written array file holds that mask.
C1_MaskShape ==
  /\ (pc \in {"save", "done"} \/ trace.save # "none") =>
       (W > 0 /\ H > 0 /\ IsBinaryMask(mask01, H, W))
  /\ IsComplete(fs.npy) => fs.npy[1].data = mask01
C1_Witness ==
  /\ pc = "done" /\ args.invert /\ W # H
  /\ HasCell(mask01, 0) /\ HasCell(mask01, 1)

\* C2: before inversion, X has W entries, Y has H entries in decreasing
\* order, and mask[row][col] is 1 exactly when the containment predicate
\* holds for (X[col], Y[row]), 0 otherwise.
C2_CellIffContains ==
  pc = "invert" =>
    /\ Len0(xs) = W /\ Len0(ys) = H
    /\ \A i \in 0..(H - 2) : F64Lt(ys[i + 1], ys[i])
    /\ IsBinaryMask(mask01, H, W)
    /\ \A row \in 0..(H - 1) : \A col \in 0..(W - 1) :
         (mask01[row][col] = 1) <=> ContainsXY(geom, xs[col], ys[row])
C2_Witness ==
  /\ pc = "invert" /\ W >= 2 /\ H >= 2 /\ W # H
  /\ HasCell(mask01, 0) /\ HasCell(mask01, 1)

\* C3: whenever rasterize_vectorized leaves the bulk path for the
\* per-point fallback, it returns a mask, and that mask is the one the
\* bulk path computes for the same polygon and sample grid.
C3_FallbackEqualsBulk ==
  (pc \in {"fn_done", "error"} /\ trace.path = "loop") =>
    (pc = "fn_done" /\ mask01 = BulkMask(geom, xs, ys))

\* C4: for a polygon lying in the northern half of the box (every cell at
\* or above the midline), every 1 of the mask is in a row i < H/2, and row
\* 0 is the row sampled nearest maxY.
InNorthernHalf(cells, b) == \A c \in cells : 2 * c[2] >= b[2] + b[4]
C4_NorthernRows ==
  (pc = "fn_done" /\ InNorthernHalf(geom, bounds)) =>
    /\ \A i \in 0..(H - 1) : \A j \in 0..(W - 1) : mask01[i][j] = 1 => 2 * i < H
    /\ \A i \in 0..(H - 1) : ~F64Lt(ys[0], ys[i])
    /\ ~F64Lt(F64OfInt(bounds[4]), ys[0])
C4_Witness ==
  /\ pc = "fn_done" /\ H >= 2 /\ geom # {}
  /\ InNorthernHalf(geom, bounds)
  /\ \A c \in geom : c[2] + 1 <= bounds[4] /\ bounds[1] <= c[1] /\ c[1] + 1 <= bounds[3]
  /\ HasCell(mask01, 1)

\* C5: inversion replaces every cell v by 1 - v, leaves every cell in
\* {0, 1}, and inverting the inverted mask gives the original mask back.
C5_InvertInvolution ==
  [][(pc = "invert" /\ args.invert) =>
       /\ IsBinaryMask(mask01', H, W)
       /\ \A i \in 0..(H - 1) : \A j \in 0..(W - 1) : mask01'[i][j] = 1 - mask01[i][j]
       /\ Invert(mask01') = mask01]_vars
C5_Witness ==
  /\ pc = "save" /\ args.invert
  /\ HasCell(mask01, 0) /\ HasCell(mask01, 1)

\* C6: a failing projection (estimation or reprojection) does not end the
\* run: one warning is on stderr, the frame is the one load_polygon
\* returned, and a run that completes has written the mask, the bounds
\* and the CRS of the original geometry; without --project-utm the frame
\* is unchanged and nothing is printed.
C6_ProjectionSoftFail ==
  /\ ProjectionFailed =>
       /\ stderr = <<ProjectWarning>>
       /\ pc # "project"
       /\ pc \in {"ensure", "grid", "raster", "invert", "save", "done"} => gdf = OrigGdf
       /\ pc = "error" =>
            err \in {GeometryError, UnsupportedError, SamplesError, ZeroDivisionError,
                     "AttributeError", "OSError"}
       /\ pc = "done" =>
            /\ fs.npy = Complete(ExpectedMask(OrigGdf.geom.cells))
            /\ fs.meta[1].data.crs_wkt = ToWkt(OrigGdf.crs)
            /\ fs.meta[1].data.bounds.maxy = Bounds(OrigGdf.geom.cells)[4]
  /\ trace.projection = "not_requested" => (stderr = <<>> /\ gdf = OrigGdf)
  /\ ~ProjectionFailed => stderr = <<>>
C6_Witness ==
  /\ pc = "done" /\ ProjectionFailed
  /\ inFile.crs = "NONE" /\ HasCell(mask01, 1) /\ HasCell(mask01, 0)

\* C7: a run on an input without features ends in the input error, a run
\* on a geometry without polygonal part ends in a geometry error, and a
\* run ended by either has built no sample grid and no mask and has
\* written no file.
C7_FatalBeforeGrid ==
  /\ err \in {InputError, GeometryError, UnsupportedError} =>
       (pc = "error" /\ xs = <<>> /\ ys = <<>> /\ mask01 = <<>> /\ fs = NoFiles)
  /\ (pc # "load" /\ inFile.features = {}) => err = InputError
  /\ (pc \notin {"load", "project", "ensure"} /\ inFile.features # {}
        /\ UnaryUnion(inFile.features).cells = {}) =>
       err \in {GeometryError, UnsupportedError}
C7_Witness ==
  /\ pc = "error" /\ err = GeometryError
  /\ args.project_utm /\ Cardinality(inFile.features) = 2

\* C8: at every point of every run, either no output file is on disk or
\* all three have been written in full.
C8_AllOrNothing ==
  \/ \A f \in SaveStages : fs[f] = <<>>
  \/ \A f \in SaveStages : IsComplete(fs[f])

C10_MetaMatchesRaster ==
  /\ pc \in {"save", "done"} =>
       /\ geom = RasterizedGdf.geom.cells
       /\ bounds = Bounds(RasterizedGdf.geom.cells)
       /\ gdf.crs = RasterizedGdf.crs
  /\ pc = "done" => IsComplete(fs.meta)
  /\ IsComplete(fs.meta) =>
       /\ fs.meta[1].data.bounds =
            [minx |-> Bounds(RasterizedGdf.geom.cells)[1],
             miny |-> Bounds(RasterizedGdf.geom.cells)[2],
             maxx |-> Bounds(RasterizedGdf.geom.cells)[3],
             maxy |-> Bounds(RasterizedGdf.geom.cells)[4]]
       /\ fs.meta[1].data.crs_wkt = "WKT:" \o RasterizedGdf.crs
       /\ RasterizedGdf.crs =
            (IF trace.projection = "ok" THEN UtmCrs
             ELSE IF inFile.crs = "NONE" THEN DefaultCrs ELSE inFile.crs)
       /\ fs.meta[1].data.height = Len0(fs.npy[1].data)
       /\ \A i \in DOMAIN fs.npy[1].data :
            fs.meta[1].data.width = Len0(fs.npy[1].data[i])
C10_Witness ==
  /\ pc = "done" /\ trace.projection = "ok" /\ W # H
  /\ fs.meta[1].data.bounds.minx >= 3

=============================================================================
